---- MODULE Spec2Model ----
(***************************************************************************)
(* Document RAG system: the form-based client (frontend/src/App.js) and    *)
(* the backend engine it talks to over HTTP.                               *)
(*                                                                         *)
(* Spec       the current App component driven through its rendered UI,    *)
(*            the backend seen as an HTTP peer that may answer anything.   *)
(* FirstSpec  the first version of the App's ask section (App.js:8-124).   *)
(***************************************************************************)
EXTENDS Naturals, Sequences, FiniteSets, TLC

\* ------------------------------------------------------------------ bounds
MaxInFlight == 2      \* async handler runs awaiting a response at once, per handler
MaxReloads == 1
MaxTimers == 2        \* pending message timers that still let a handler start
MaxDocs == 2          \* documents ever uploaded to the backend
NumChunks == 2        \* chunks the Chunker cuts a document into

\* ------------------------------------------------------------- JS values
\* Strings that are inspected character by character are sequences of
\* one-character strings; other texts are sequences of pieces.
JSNull == "null"
JSUndefined == "undefined"
NoEntry == "<no entry>"

Undef == [t |-> "undefined"]
Str(s) == [t |-> "string", v |-> s]

\* String(x) as the template literal / encodeURIComponent coerce x.
StringOf(x) ==
    IF x.t = "undefined" THEN <<"u", "n", "d", "e", "f", "i", "n", "e", "d">>
    ELSE x.v

IsWhite(c) == c = " "

\* String.prototype.trim
RECURSIVE TrimLeft(_)
TrimLeft(s) ==
    IF s = <<>> THEN <<>>
    ELSE IF IsWhite(Head(s)) THEN TrimLeft(Tail(s)) ELSE s

RECURSIVE TrimRight(_)
TrimRight(s) ==
    IF s = <<>> THEN <<>>
    ELSE IF IsWhite(s[Len(s)]) THEN TrimRight(SubSeq(s, 1, Len(s) - 1)) ELSE s

trim(s) == TrimRight(TrimLeft(s))

\* JS truthiness of a string: only '' is falsy.
Falsy(s) == s = <<>>

\* encodeURIComponent: unreserved characters stay, the others are
\* percent-encoded.
EncodeChar(c) ==
    CASE c = "/" -> <<"%", "2", "F">>
      [] c = "%" -> <<"%", "2", "5">>
      [] c = " " -> <<"%", "2", "0">>
      [] OTHER -> <<c>>

RECURSIVE EncodeSeq(_)
EncodeSeq(s) == IF s = <<>> THEN <<>> ELSE EncodeChar(Head(s)) \o EncodeSeq(Tail(s))

encodeURIComponent(x) == EncodeSeq(StringOf(x))

\* The API server's routing of a request path: split on "/", then
\* percent-decode each segment.
RECURSIVE DecodeSeq(_)
DecodeSeq(s) ==
    IF s = <<>> THEN <<>>
    ELSE IF Head(s) = "%" /\ Len(s) >= 3
         THEN LET code == <<s[2], s[3]>>
                  ch == CASE code = <<"2", "F">> -> "/"
                          [] code = <<"2", "5">> -> "%"
                          [] code = <<"2", "0">> -> " "
                          [] OTHER -> "?"
              IN  <<ch>> \o DecodeSeq(SubSeq(s, 4, Len(s)))
         ELSE <<Head(s)>> \o DecodeSeq(Tail(s))

RECURSIVE SplitPath(_, _)
SplitPath(s, cur) ==
    IF s = <<>> THEN <<cur>>
    ELSE IF Head(s) = "/" THEN <<cur>> \o SplitPath(Tail(s), <<>>)
         ELSE SplitPath(Tail(s), Append(cur, Head(s)))

Segments(path) == Tail(SplitPath(path, <<>>))

\* The {blob_name} an embed request path addresses, or Undef when the path
\* is not of the form /api/files/{blob_name}/embed.
EmbedTarget(path) ==
    LET segs == Segments(path)
    IN  IF Len(segs) = 4 /\ segs[1] = <<"api">> /\ segs[2] = <<"files">>
           /\ segs[4] = <<"embed">>
        THEN Str(DecodeSeq(segs[3]))
        ELSE Undef

\* ------------------------------------------------------------ input sets
UUIDs == {"uuid-1", "uuid-2"}
Files == {"f1", "f2"}
Questions == {<<>>, <<" ">>, <<"q">>}
BlobNames == {<<"n", "/", "b">>}
TopK == 5

Pending == [status |-> "pending"]

\* axios resolves on a 2xx status and rejects otherwise (or on a network
\* failure); a resolved response carries the parsed body in .data.
UploadResponses ==
    {[status |-> "rejected", message |-> "Network Error"]}
    \cup {[status |-> "ok", data |-> [t |-> "object", blob_name |-> Str(b)]] : b \in BlobNames}
    \cup {[status |-> "ok", data |-> [t |-> "object", blob_name |-> Undef]],
          [status |-> "ok", data |-> [t |-> "null"]]}

EmbedResponses ==
    {[status |-> "rejected", message |-> "Network Error"],
     [status |-> "ok", data |-> "indexed"],
     [status |-> "ok", data |-> "error"]}

AskResponses ==
    {[status |-> "rejected", message |-> "Network Error"],
     [status |-> "ok", data |-> [t |-> "object", answer |-> <<"generated">>]]}

\* ----------------------------------------------------------------- state
VARIABLES
    localStorage,       \* the browser's "sessionNamespace" entry, or NoEntry
    mounted,            \* the App is mounted and its mount effect has run
    reloads,            \* page reloads so far
    sessionNamespace, file, question, answer, loading, uploading, message,
    dragOver,           \* the component's useState cells
    timers,             \* pending setTimeout callbacks of showMessage, oldest first
    messageBy,          \* the showMessage call (its timer id) that set `message`
    uploads,            \* handleFileUpload runs suspended at an await
    lastUpload,         \* the handleFileUpload run that finished last
    asks,               \* handleAsk runs suspended at their await
    lastAlert,          \* first version: text of the last alert()
    registry,           \* backend: document id -> Registry entry, or Absent
    blobStore,          \* backend: the blobs present
    vectorIndex,        \* backend: namespace -> chunk id -> number of entries
    embedOps,           \* backend: the embed in progress on each document
    deleteOps,          \* backend: the next step of the delete in progress
    nextDocId           \* backend: the next document id to assign

compVars == <<sessionNamespace, file, question, answer, loading, uploading, dragOver>>
msgVars == <<message, timers, messageBy>>
netVars == <<uploads, lastUpload, asks>>
envVars == <<localStorage, mounted, reloads>>
clientVars == <<envVars, compVars, msgVars, netVars, lastAlert>>
backendVars == <<registry, blobStore, vectorIndex, embedOps, deleteOps, nextDocId>>
vars == <<clientVars, backendVars>>

\* Backend: a document's blob name is its document id (one blob per document).
Namespaces == {"A", "B"}
Omitted == "<omitted>"
DocIds == 1..MaxDocs
Chunks == 1..NumChunks
ChunkIds == DocIds \X Chunks
Absent == [state |-> "absent"]

EmptyIndex == [c \in ChunkIds |-> 0]

BackendInit ==
    /\ registry = [d \in DocIds |-> Absent]
    /\ blobStore = {}
    /\ vectorIndex = [ns \in Namespaces |-> EmptyIndex]
    /\ embedOps = [d \in DocIds |-> [active |-> FALSE]]
    /\ deleteOps = [d \in DocIds |-> "none"]
    /\ nextDocId = 1

NoMessage == [type |-> "", text |-> <<>>]
NoRun == [shown |-> "none"]
NoRequest == [kind |-> "none"]

Init ==
    /\ localStorage = NoEntry
    /\ mounted = FALSE
    /\ reloads = 0
    /\ sessionNamespace = ""
    /\ file = JSNull
    /\ question = <<>>
    /\ answer = <<>>
    /\ loading = FALSE
    /\ uploading = FALSE
    /\ message = NoMessage
    /\ dragOver = FALSE
    /\ timers = <<>>
    /\ messageBy = 0
    /\ uploads = <<>>
    /\ lastUpload = NoRun
    /\ asks = <<>>
    /\ lastAlert = <<>>
    /\ BackendInit

\* ------------------------------------------------------------ mount effect
getItem == IF localStorage = NoEntry THEN JSNull ELSE localStorage

\* useEffect(() => {...}, []): runs once per mount.
useEffectMountAlways ==
    \E u \in UUIDs :
        /\ localStorage' = u
        /\ sessionNamespace' = u

useEffectMount ==
    LET ns == getItem
    IN  IF ns = JSNull \/ ns = ""
        THEN \E u \in UUIDs :
                /\ localStorage' = u
                /\ sessionNamespace' = u
        ELSE /\ sessionNamespace' = ns
             /\ UNCHANGED localStorage

Mount ==
    /\ ~mounted
    /\ mounted' = TRUE
    /\ useEffectMount
    /\ UNCHANGED <<reloads, file, question, answer, loading, uploading, dragOver,
                   msgVars, netVars, lastAlert, backendVars>>

\* A page reload: the component state, its suspended continuations and its
\* timers are gone; localStorage is not.
Reload ==
    /\ mounted
    /\ reloads < MaxReloads
    /\ reloads' = reloads + 1
    /\ mounted' = FALSE
    /\ sessionNamespace' = ""
    /\ file' = JSNull
    /\ question' = <<>>
    /\ answer' = <<>>
    /\ loading' = FALSE
    /\ uploading' = FALSE
    /\ dragOver' = FALSE
    /\ message' = NoMessage
    /\ timers' = <<>>
    /\ messageBy' = 0
    /\ uploads' = <<>>
    /\ lastUpload' = NoRun
    /\ asks' = <<>>
    /\ UNCHANGED <<localStorage, lastAlert, backendVars>>

\* ------------------------------------------------------------ showMessage
Range(s) == {s[i] : i \in DOMAIN s}

FreshTimer == CHOOSE i \in 1..(Len(timers) + 1) : i \notin Range(timers)

showMessage(type, text) ==
    /\ message' = [type |-> type, text |-> text]
    /\ timers' = Append(timers, FreshTimer)
    /\ messageBy' = FreshTimer

\* The setTimeout callback: setMessage({ type: '', text: '' }).
TimerFire ==
    /\ mounted
    /\ timers # <<>>
    /\ message' = NoMessage
    /\ messageBy' = 0
    /\ timers' = Tail(timers)
    /\ UNCHANGED <<envVars, compVars, netVars, lastAlert, backendVars>>

\* ------------------------------------------------------- file selection
handleFileChange ==
    /\ mounted
    /\ \E f \in Files \cup {JSUndefined} : file' = f
    /\ UNCHANGED <<envVars, sessionNamespace, question, answer, loading, uploading,
                   dragOver, msgVars, netVars, lastAlert, backendVars>>

handleDragOver ==
    /\ mounted
    /\ dragOver' = TRUE
    /\ UNCHANGED <<envVars, sessionNamespace, file, question, answer, loading,
                   uploading, msgVars, netVars, lastAlert, backendVars>>

handleDragLeave ==
    /\ mounted
    /\ dragOver' = FALSE
    /\ UNCHANGED <<envVars, sessionNamespace, file, question, answer, loading,
                   uploading, msgVars, netVars, lastAlert, backendVars>>

handleDrop ==
    /\ mounted
    /\ dragOver' = FALSE
    /\ \E droppedFile \in Files \cup {JSUndefined} :
          file' = IF droppedFile # JSUndefined THEN droppedFile ELSE file
    /\ UNCHANGED <<envVars, sessionNamespace, question, answer, loading, uploading,
                   msgVars, netVars, lastAlert, backendVars>>

\* textarea onChange={(e) => setQuestion(e.target.value)}
setQuestion ==
    /\ mounted
    /\ \E q \in Questions : question' = q
    /\ UNCHANGED <<envVars, sessionNamespace, file, answer, loading, uploading,
                   dragOver, msgVars, netVars, lastAlert, backendVars>>

\* ----------------------------------------------------- handleFileUpload
NoFile(f) == f = JSNull \/ f = JSUndefined

Remove(s, i) == SubSeq(s, 1, i - 1) \o SubSeq(s, i + 1, Len(s))

\* axios.post(`${API_BASE_URL}/upload`, formData, {headers})
UploadRequest(f) ==
    [kind |-> "upload", path |-> <<"/", "upload">>, params |-> <<>>, body |-> f]

\* axios.post(`.../api/files/${encodeURIComponent(blobName)}/embed`, null,
\*            { params: { namespace: sessionNamespace } })
EmbedRequest(blobName, ns) ==
    [kind |-> "embed",
     path |-> <<"/", "api", "/", "files", "/">> \o encodeURIComponent(blobName)
              \o <<"/", "embed">>,
     params |-> [namespace |-> ns], body |-> JSNull]

\* handleFileUpload up to its first await.
handleFileUpload ==
    IF NoFile(file)
    THEN /\ showMessage("error", <<"Please select a file first.">>)
         /\ UNCHANGED <<envVars, compVars, netVars, lastAlert, backendVars>>
    ELSE /\ uploading' = TRUE
         /\ uploads' = Append(uploads,
                [pc |-> "upload", file |-> file, ns |-> sessionNamespace,
                 uploadReq |-> UploadRequest(file), upload |-> Pending,
                 blobName |-> Undef, embedReq |-> NoRequest, embed |-> Pending])
         /\ UNCHANGED <<envVars, sessionNamespace, file, question, answer, loading,
                        dragOver, msgVars, lastUpload, asks, lastAlert, backendVars>>

UploadButtonDisabledNoBusy == NoFile(file)

\* <button onClick={handleFileUpload} disabled={uploading || !file}>
UploadButtonDisabled == uploading \/ NoFile(file)

ClickUpload ==
    /\ mounted
    /\ ~UploadButtonDisabled
    /\ Len(uploads) < MaxInFlight
    /\ Len(timers) < MaxTimers
    /\ handleFileUpload

Finished(run, shown) == [run EXCEPT !.pc = "done"] @@ [shown |-> shown]

\* catch (error) { showMessage('error', ...) } finally { setUploading(false) }
UploadCatch(errorMessage) ==
    /\ showMessage("error", <<"Error uploading or embedding file: ", errorMessage>>)
    /\ uploading' = FALSE
    /\ UNCHANGED <<envVars, sessionNamespace, file, question, answer, loading,
                   dragOver, asks, lastAlert, backendVars>>

\* The awaited upload settles: the continuation runs up to the next await.
UploadSettled(i, res) ==
    IF res.status = "rejected"
    THEN /\ uploads' = Remove(uploads, i)
         /\ lastUpload' = Finished([uploads[i] EXCEPT !.upload = res], "error")
         /\ UploadCatch(res.message)
    ELSE IF res.data.t = "null"
    THEN \* uploadRes.data.blob_name throws a TypeError inside the try block
         /\ uploads' = Remove(uploads, i)
         /\ lastUpload' = Finished([uploads[i] EXCEPT !.upload = res], "error")
         /\ UploadCatch("Cannot read properties of null")
    ELSE LET blobName == res.data.blob_name
         IN  /\ uploads' = [uploads EXCEPT ![i].pc = "embed", ![i].upload = res,
                                           ![i].blobName = blobName,
                                           ![i].embedReq =
                                               EmbedRequest(blobName, uploads[i].ns)]
             /\ UNCHANGED <<envVars, compVars, msgVars, lastUpload, asks, lastAlert, backendVars>>

UploadResponse ==
    \E i \in DOMAIN uploads : \E res \in UploadResponses :
        /\ uploads[i].pc = "upload"
        /\ UploadSettled(i, res)

\* The awaited embed settles: the continuation runs to the end.
EmbedSettled(i, res) ==
    IF res.status = "rejected"
    THEN /\ uploads' = Remove(uploads, i)
         /\ lastUpload' = Finished([uploads[i] EXCEPT !.embed = res], "error")
         /\ UploadCatch(res.message)
    ELSE /\ uploads' = Remove(uploads, i)
         /\ lastUpload' = Finished([uploads[i] EXCEPT !.embed = res], "success")
         /\ showMessage("success", <<"File uploaded and indexed successfully!">>)
         /\ file' = JSNull
         /\ uploading' = FALSE
         /\ UNCHANGED <<envVars, sessionNamespace, question, answer, loading,
                        dragOver, asks, lastAlert, backendVars>>

EmbedResponse ==
    \E i \in DOMAIN uploads : \E res \in EmbedResponses :
        /\ uploads[i].pc = "embed"
        /\ EmbedSettled(i, res)

\* ------------------------------------------------------------ handleAsk
\* axios.post(`${API_BASE_URL}/api/ask`, null, { params: {question, top_k: 5, namespace} })
AskRequest(q, ns) ==
    [kind |-> "ask", path |-> <<"/", "api", "/", "ask">>,
     params |-> [question |-> q, top_k |-> TopK, namespace |-> ns],
     body |-> JSNull]

\* handleAsk up to its await.
handleAsk ==
    IF Falsy(trim(question))
    THEN /\ showMessage("error", <<"Please enter a question.">>)
         /\ UNCHANGED <<envVars, compVars, netVars, lastAlert, backendVars>>
    ELSE /\ loading' = TRUE
         /\ asks' = Append(asks, [pc |-> "ask",
                                  askReq |-> AskRequest(question, sessionNamespace)])
         /\ UNCHANGED <<envVars, sessionNamespace, file, question, answer, uploading,
                        dragOver, msgVars, uploads, lastUpload, lastAlert, backendVars>>

\* <button onClick={handleAsk} disabled={loading || !question.trim()}>
AskButtonDisabled == loading \/ Falsy(trim(question))

ClickAsk ==
    /\ mounted
    /\ ~AskButtonDisabled
    /\ Len(asks) < MaxInFlight
    /\ Len(timers) < MaxTimers
    /\ handleAsk

\* The awaited ask settles: setAnswer(...) in try or catch, then setLoading(false).
AskSettled(i, res) ==
    /\ asks' = Remove(asks, i)
    /\ answer' = IF res.status = "rejected"
                 THEN <<"Error getting answer: ", res.message>>
                 ELSE res.data.answer
    /\ loading' = FALSE
    /\ UNCHANGED <<envVars, sessionNamespace, file, question, uploading, dragOver,
                   msgVars, uploads, lastUpload, lastAlert, backendVars>>

AskResponse ==
    \E i \in DOMAIN asks : \E res \in AskResponses :
        AskSettled(i, res)

\* ------------------------------------------------------- specification
Next ==
    \/ Mount
    \/ Reload
    \/ handleFileChange
    \/ handleDragOver
    \/ handleDragLeave
    \/ handleDrop
    \/ setQuestion
    \/ ClickUpload
    \/ UploadResponse
    \/ EmbedResponse
    \/ ClickAsk
    \/ AskResponse
    \/ TimerFire

Spec == Init /\ [][Next]_vars

\* ------------------------------------------- first version of the App
\* (App.js:8-124) its ask section: same state cells, alert() for messages.
FirstMount == Mount

FirstSetQuestion == setQuestion

\* First version of handleAsk up to its await.
FirstHandleAsk ==
    IF Falsy(question)
    THEN /\ lastAlert' = <<"Please enter a question.">>
         /\ UNCHANGED <<envVars, compVars, msgVars, netVars, backendVars>>
    ELSE /\ loading' = TRUE
         /\ asks' = Append(asks, [pc |-> "ask",
                                  askReq |-> AskRequest(question, sessionNamespace)])
         /\ UNCHANGED <<envVars, sessionNamespace, file, question, answer, uploading,
                        dragOver, msgVars, uploads, lastUpload, lastAlert, backendVars>>

\* <button onClick={handleAsk} disabled={loading}>
FirstAskButtonDisabled == loading

FirstClickAsk ==
    /\ mounted
    /\ ~FirstAskButtonDisabled
    /\ Len(asks) < MaxInFlight
    /\ FirstHandleAsk

FirstAskResponse ==
    \E i \in DOMAIN asks : \E res \in AskResponses :
        AskSettled(i, res)

\* The user dismisses the alert box.
FirstAlertClosed ==
    /\ lastAlert # <<>>
    /\ lastAlert' = <<>>
    /\ UNCHANGED <<envVars, compVars, msgVars, netVars, backendVars>>

FirstNext ==
    \/ FirstMount
    \/ Reload
    \/ FirstSetQuestion
    \/ FirstClickAsk
    \/ FirstAskResponse
    \/ FirstAlertClosed

FirstSpec == Init /\ [][FirstNext]_vars

\* ================================================================ backend
\* The engine behind the HTTP contract (spec sections 3-7): Registry, Blob
\* Store and per-namespace Vector Index, with upload, embed, ask, list,
\* download and delete as the entry points any client may call concurrently.
\* What an entry point answers at once is an operator of the state and the
\* request; what it changes is an action.

FindDocumentAnyNamespace(blob, ns) == registry[blob].state # "absent"

\* A Registry lookup scoped to the caller's namespace.
FindDocument(blob, ns) ==
    /\ registry[blob].state # "absent"
    /\ registry[blob].namespace = ns

Tombstoned(d) == registry[d].state = "deleting"

UpsertAdditive(index, chunk) == [index EXCEPT ![chunk] = @ + 1]

\* Vector Index upsert keyed by chunk_id: overwrite, not add.
Upsert(index, chunk) == [index EXCEPT ![chunk] = 1]

DeleteByDocument(index, d) ==
    [c \in ChunkIds |-> IF c[1] = d THEN 0 ELSE index[c]]

\* 4.1 Ingestion Pipeline. All endpoints require `namespace`; omission is a
\* client error.
UploadAdmission(ns, blobWriteOk) ==
    IF ns = Omitted THEN "ValidationError"
    ELSE IF ~blobWriteOk THEN "StorageError"
    ELSE "ok"

\* Write the blob, then create the Registry entry with indexed=false.
BackendUpload ==
    \E ns \in Namespaces \cup {Omitted} : \E blobWriteOk \in BOOLEAN :
        /\ UploadAdmission(ns, blobWriteOk) = "ok"
        /\ nextDocId <= MaxDocs
        /\ blobStore' = blobStore \cup {nextDocId}
        /\ registry' = [registry EXCEPT ![nextDocId] =
               [state |-> "uploaded", namespace |-> ns, retried |-> FALSE]]
        /\ nextDocId' = nextDocId + 1
        /\ UNCHANGED <<vectorIndex, embedOps, deleteOps, clientVars>>

\* 4.2 Indexing Pipeline, entry: the compare-and-swap on the Registry state
\* that takes the document's indexing lock; "ok" is the no-op success on an
\* already indexed document.
EmbedAdmission(blob, ns) ==
    IF ns = Omitted THEN "ValidationError"
    ELSE IF ~FindDocument(blob, ns) \/ Tombstoned(blob) \/ blob \notin blobStore
    THEN "NotFoundError"
    ELSE IF registry[blob].state = "indexing" THEN "ConcurrencyConflictError"
    ELSE IF registry[blob].state = "indexed" THEN "ok"
    ELSE "start"

EmbedBegin ==
    \E ns \in Namespaces \cup {Omitted} : \E blob \in DocIds :
        /\ EmbedAdmission(blob, ns) = "start"
        /\ registry' = [registry EXCEPT ![blob].state = "indexing",
                                        ![blob].retried =
                                            registry[blob].state = "failed"]
        /\ embedOps' = [embedOps EXCEPT ![blob] =
                           [active |-> TRUE, ns |-> ns, done |-> 0]]
        /\ UNCHANGED <<blobStore, vectorIndex, deleteOps, nextDocId, clientVars>>

\* One chunk of the batch is embedded and upserted.
EmbedUpsert ==
    \E d \in DocIds :
        /\ embedOps[d].active
        /\ embedOps[d].done < NumChunks
        /\ vectorIndex' = [vectorIndex EXCEPT ![embedOps[d].ns] =
                              Upsert(@, <<d, embedOps[d].done + 1>>)]
        /\ embedOps' = [embedOps EXCEPT ![d].done = @ + 1]
        /\ UNCHANGED <<registry, blobStore, deleteOps, nextDocId, clientVars>>

\* All chunks are in: flip indexed=true and release the lock.
EmbedFinish ==
    \E d \in DocIds :
        /\ embedOps[d].active
        /\ embedOps[d].done = NumChunks
        /\ registry' = [registry EXCEPT ![d].state = "indexed"]
        /\ embedOps' = [embedOps EXCEPT ![d] = [active |-> FALSE]]
        /\ UNCHANGED <<blobStore, vectorIndex, deleteOps, nextDocId, clientVars>>

\* An upstream failure, timeout or crash aborts the embed: the flag is not
\* flipped, the lock is released, chunks already upserted stay.
EmbedAbort ==
    \E d \in DocIds :
        /\ embedOps[d].active
        /\ registry' = [registry EXCEPT ![d].state = "failed"]
        /\ embedOps' = [embedOps EXCEPT ![d] = [active |-> FALSE]]
        /\ UNCHANGED <<blobStore, vectorIndex, deleteOps, nextDocId, clientVars>>

\* The documents whose chunks a query of the namespace's index can return:
\* tombstoned documents are excluded.
Retrievable(ns) ==
    {d \in DocIds : /\ \E c \in Chunks : vectorIndex[ns][<<d, c>>] > 0
                    /\ ~Tombstoned(d)}

\* 4.3 Retrieval & Answer Pipeline: the status and the documents the answer
\* is derived from.
AskReply(ns, q) ==
    IF ns = Omitted THEN [status |-> "ValidationError", docs |-> {}]
    ELSE IF Falsy(trim(q)) THEN [status |-> "EmptyQueryError", docs |-> {}]
    ELSE IF Retrievable(ns) = {} THEN [status |-> "no documents", docs |-> {}]
    ELSE [status |-> "ok", docs |-> Retrievable(ns)]

\* 4.4 Lifecycle Manager: list.
ListReply(ns) ==
    IF ns = Omitted THEN [status |-> "ValidationError", docs |-> {}]
    ELSE [status |-> "ok",
          docs |-> {d \in DocIds : FindDocument(d, ns) /\ ~Tombstoned(d)}]

\* 4.4 Lifecycle Manager: download, with the namespace ownership check.
DownloadReply(blob, ns) ==
    IF ns = Omitted THEN [status |-> "ValidationError", docs |-> {}]
    ELSE IF FindDocument(blob, ns) /\ ~Tombstoned(blob) /\ blob \in blobStore
    THEN [status |-> "ok", docs |-> {blob}]
    ELSE [status |-> "NotFoundError", docs |-> {}]

DeleteMayStartAlways(d) == TRUE

\* A delete may take the document unless an embed holds its indexing lock.
DeleteMayStart(d) == registry[d].state # "indexing"

DeleteAdmission(blob, ns) ==
    IF ns = Omitted THEN "ValidationError"
    ELSE IF ~FindDocument(blob, ns) THEN "NotFoundError"
    ELSE IF ~DeleteMayStart(blob) \/ deleteOps[blob] # "none"
    THEN "ConcurrencyConflictError"
    ELSE "start"

\* 4.4 delete, step 1: tombstone the Registry entry (or resume a partial
\* delete whose tombstone is still there).
DeleteBegin ==
    \E ns \in Namespaces \cup {Omitted} : \E blob \in DocIds :
        /\ DeleteAdmission(blob, ns) = "start"
        /\ registry' = [registry EXCEPT ![blob].state = "deleting"]
        /\ deleteOps' = [deleteOps EXCEPT ![blob] = "vectors"]
        /\ UNCHANGED <<blobStore, vectorIndex, embedOps, nextDocId, clientVars>>

\* Step 2: delete the Vector Index entries of the document.
DeleteVectors ==
    \E d \in DocIds :
        /\ deleteOps[d] = "vectors"
        /\ vectorIndex' = [vectorIndex EXCEPT ![registry[d].namespace] =
                              DeleteByDocument(@, d)]
        /\ deleteOps' = [deleteOps EXCEPT ![d] = "blob"]
        /\ UNCHANGED <<registry, blobStore, embedOps, nextDocId, clientVars>>

\* Step 3: delete the blob.
DeleteBlob ==
    \E d \in DocIds :
        /\ deleteOps[d] = "blob"
        /\ blobStore' = blobStore \ {d}
        /\ deleteOps' = [deleteOps EXCEPT ![d] = "entry"]
        /\ UNCHANGED <<registry, vectorIndex, embedOps, nextDocId, clientVars>>

\* Step 4: remove the Registry entry.
DeleteEntry ==
    \E d \in DocIds :
        /\ deleteOps[d] = "entry"
        /\ registry' = [registry EXCEPT ![d] = Absent]
        /\ deleteOps' = [deleteOps EXCEPT ![d] = "none"]
        /\ UNCHANGED <<blobStore, vectorIndex, embedOps, nextDocId, clientVars>>

\* Step 2 or 3 fails: the tombstone stays, the caller gets PartialDeleteError.
DeleteFail ==
    \E d \in DocIds :
        /\ deleteOps[d] \in {"vectors", "blob"}
        /\ deleteOps' = [deleteOps EXCEPT ![d] = "none"]
        /\ UNCHANGED <<registry, blobStore, vectorIndex, embedOps, nextDocId,
                       clientVars>>

BackendNext ==
    \/ BackendUpload
    \/ EmbedBegin
    \/ EmbedUpsert
    \/ EmbedFinish
    \/ EmbedAbort
    \/ DeleteBegin
    \/ DeleteVectors
    \/ DeleteBlob
    \/ DeleteEntry
    \/ DeleteFail

BackendSpec == Init /\ [][BackendNext]_vars

\* ---------------------------------------------------------------- claims
\* Every request the client has issued and still remembers: those of the
\* suspended runs and of the run that finished last.
RunRequests(run) ==
    <<run.uploadReq>> \o (IF run.embedReq.kind = "embed" THEN <<run.embedReq>> ELSE <<>>)

RECURSIVE Flatten(_)
Flatten(ss) == IF ss = <<>> THEN <<>> ELSE Head(ss) \o Flatten(Tail(ss))

AllRequests ==
    Flatten([i \in DOMAIN uploads |-> RunRequests(uploads[i])])
    \o (IF lastUpload.shown # "none" THEN RunRequests(lastUpload) ELSE <<>>)
    \o [i \in DOMAIN asks |-> asks[i].askReq]

CarriesNamespace(req) ==
    /\ "namespace" \in DOMAIN req.params
    /\ req.params.namespace = localStorage
    /\ req.params.namespace # ""

\* C1: every request issued to the backend (upload, embed, ask) carries the
\* `namespace` parameter, set to the client's session namespace.
C1_EveryRequestCarriesNamespace ==
    \A k \in DOMAIN AllRequests : CarriesNamespace(AllRequests[k])

ReturnedBlobName(run) ==
    /\ run.upload.status = "ok"
    /\ run.upload.data.t = "object"
    /\ run.upload.data.blob_name.t = "string"

EmbedIndexed(run) ==
    /\ run.embed.status = "ok"
    /\ run.embed.data = "indexed"

\* C2: a finished handleFileUpload run has shown the success message only if
\* its upload returned a blob_name and its embed returned {indexed: true};
\* every other finished run has shown an error message.
C2_SuccessOnlyWhenIndexed ==
    lastUpload.shown # "none" =>
        IF ReturnedBlobName(lastUpload) /\ EmbedIndexed(lastUpload)
        THEN lastUpload.shown = "success"
        ELSE lastUpload.shown = "error"

EmbedFollowsUpload(run) ==
    run.embedReq.kind = "embed" =>
        /\ ~NoFile(run.file)
        /\ ReturnedBlobName(run)
        /\ EmbedTarget(run.embedReq.path) = run.upload.data.blob_name

\* C6: a run issues its embed request only after its own upload succeeded,
\* and the embed addresses exactly the blob_name that upload returned.
C6_EmbedTargetsReturnedBlob ==
    /\ \A i \in DOMAIN uploads : EmbedFollowsUpload(uploads[i])
    /\ lastUpload.shown # "none" => EmbedFollowsUpload(lastUpload)

\* C7: the stored session namespace is generated once, only when no entry
\* exists, and never changes afterwards; the mounted component holds the
\* stored value, and every embed and ask request carries it, non-empty.
C7_NamespaceInv ==
    /\ mounted => (sessionNamespace = localStorage /\ localStorage \in UUIDs)
    /\ \A k \in DOMAIN AllRequests :
          AllRequests[k].kind \in {"embed", "ask"} => CarriesNamespace(AllRequests[k])

C7_NamespaceStable ==
    /\ []C7_NamespaceInv
    /\ [][localStorage # NoEntry => localStorage' = localStorage]_vars

\* A reloaded page has reused the stored namespace and sent an embed and an
\* ask request under it.
C7_Witness ==
    /\ reloads >= 1
    /\ mounted
    /\ \E i \in DOMAIN uploads : uploads[i].pc = "embed"
    /\ asks # <<>>

\* C8: a blank question (empty or whitespace only) is never sent to /api/ask.
C8_NoBlankQuestionSent ==
    \A i \in DOMAIN asks : ~Falsy(trim(asks[i].askReq.params.question))

\* C9: `uploading` is set exactly while a handleFileUpload run is suspended
\* and `loading` exactly while a handleAsk run is; at most one of each is
\* suspended at any time.
C9_BusyFlags ==
    /\ uploading = (uploads # <<>>)
    /\ loading = (asks # <<>>)
    /\ Len(uploads) <= 1
    /\ Len(asks) <= 1

\* An upload run failed and released its flag; a new one now awaits its
\* embed while an ask is in flight too.
C9_Witness ==
    /\ lastUpload.shown = "error"
    /\ Len(uploads) = 1 /\ uploads[1].pc = "embed" /\ uploading
    /\ Len(asks) = 1 /\ loading

\* C10: a message is cleared only by the timer of the showMessage call that
\* set it.
C10_ClearedByOwnTimer ==
    [][(mounted' /\ timers # <<>> /\ timers' = Tail(timers)
        /\ message # NoMessage /\ message' = NoMessage)
       => Head(timers) = messageBy]_vars

\* Every Vector Index entry of a namespace belongs to a document of it.
IndexPartitioned ==
    \A ns \in Namespaces : \A c \in ChunkIds :
        (vectorIndex[ns][c] > 0 /\ registry[c[1]].state # "absent")
            => registry[c[1]].namespace = ns

\* The documents a namespace can see: listed, retrieved by an ask, or
\* downloadable.
VisibleTo(ns) ==
    ListReply(ns).docs \cup AskReply(ns, <<"q">>).docs
    \cup {b \in DocIds : DownloadReply(b, ns).status = "ok"}

NoOrphanVectors ==
    \A ns \in Namespaces : \A c \in ChunkIds :
        vectorIndex[ns][c] > 0 => registry[c[1]].state # "absent"

UpsertedFor(d) ==
    \E ns \in Namespaces : \E c \in Chunks :
        vectorIndex'[ns][<<d, c>>] > vectorIndex[ns][<<d, c>>]

RemovedStateOf(d) ==
    \/ registry[d].state # "absent" /\ registry'[d].state = "absent"
    \/ d \in blobStore /\ d \notin blobStore'

\* C4: no reachable state has Vector Index entries of a document absent
\* from the Registry; no embed upserts for a document a delete has
\* tombstoned; no delete removes Registry or blob state of a document whose
\* indexing lock an embed holds.
C4_EmbedDeleteRaceSafe ==
    /\ []NoOrphanVectors
    /\ [][\A d \in DocIds :
            /\ UpsertedFor(d) => registry[d].state = "indexing"
            /\ RemovedStateOf(d) => ~embedOps[d].active]_vars

\* An embed is part way through its batch and a delete of the same document
\* is turned away.
C4_Witness ==
    \E d \in DocIds :
        /\ embedOps[d].active /\ embedOps[d].done >= 1
        /\ DeleteAdmission(d, registry[d].namespace) = "ConcurrencyConflictError"

ExactlyOnceIndexed(d) ==
    \A ns \in Namespaces : \A c \in Chunks :
        vectorIndex[ns][<<d, c>>] = IF ns = registry[d].namespace THEN 1 ELSE 0

\* C5: however many times embed ran on a document (again after success, or
\* again after a failed attempt), once it is indexed its namespace's index
\* holds each of its chunks exactly once, no chunk is ever held twice, and
\* an embed of an indexed document returns success without starting over.
C5_EmbedIdempotent ==
    /\ \A d \in DocIds : registry[d].state = "indexed" =>
          /\ ExactlyOnceIndexed(d)
          /\ EmbedAdmission(d, registry[d].namespace) = "ok"
    /\ \A ns \in Namespaces : \A c \in ChunkIds : vectorIndex[ns][c] <= 1

\* A document indexed by an embed that was retried after a failed attempt.
C5_Witness ==
    \E d \in DocIds : registry[d].state = "indexed" /\ registry[d].retried

\* ---------------------------------------------------------------- C11
\* A completing handleFileUpload run: it leaves the in-flight runs of a
\* component that stays mounted.
UploadCompletes == mounted' /\ Len(uploads') < Len(uploads)

\* C11: the file selection cleared after a successful upload is the file that
\* was uploaded: when a run completes with success, a selected file other than
\* the one that run uploaded is still selected afterwards; when a run
\* completes with a failure, the selection is left unchanged.
C11_ClearedFileIsUploaded ==
    [][UploadCompletes =>
         IF lastUpload'.shown = "success"
         THEN (~NoFile(file) /\ file # lastUpload'.file) => file' = file
         ELSE file' = file]_vars

====
